---- MODULE Spec2Model ----
(***************************************************************************)
(* Model of SensingFinalCode/dataanalysis.py: a batch script that loads a  *)
(* log of plant-sensor readings into a data frame, sorts it by raw         *)
(* timestamp, reconciles the timestamps into one datetime column, smooths  *)
(* the four channels with a rolling mean and prints summary statistics.    *)
(*                                                                         *)
(* Representation.                                                         *)
(*  - An optional value is a tuple: <<>> is NaN / NaT / a missing key,     *)
(*    a present value is a non-empty tuple.                                *)
(*  - A timestamp is <<hi, lo>> standing for hi * Base + lo (the values    *)
(*    exceed 32 bits); a channel reading is <<v>>; a mood is <<"text">>.   *)
(*  - A datetime is <<days, ms>>: days since 1970-01-01 and milliseconds   *)
(*    since midnight.                                                      *)
(*  - A mean is the exact fraction <<sum, count>>.                         *)
(***************************************************************************)
EXTENDS Integers, Sequences, FiniteSets, TLC

VARIABLES logs, df, columns, pc, caseTaken, err, out, mood_counts

vars == <<logs, df, columns, pc, caseTaken, err, out, mood_counts>>

(* ------------------------------ bounds -------------------------------- *)

\* records per batch in the timestamp and mood input families
MaxRecs == 3
\* records per batch in the channel input family (one more than the window)
MaxSmoothLen == 6

(* ----------------------- numbers wider than 32 bits ------------------- *)

Base == 10 ^ 6

NaN == <<>>

IsNaN(x) == x = <<>>

Num(hi, lo) == <<hi, lo>>

NumLe(a, b) == a[1] < b[1] \/ (a[1] = b[1] /\ a[2] <= b[2])

NumGt(a, b) == ~NumLe(a, b)

NumSub(a, b) ==
    IF a[2] >= b[2] THEN <<a[1] - b[1], a[2] - b[2]>>
    ELSE <<a[1] - b[1] - 1, a[2] + Base - b[2]>>

\* quotient and remainder of hi * Base + lo by a divisor d below Base
NumDivMod(a, d) ==
    LET t == a[1] * (Base % d) + a[2]
    IN  [q |-> a[1] * (Base \div d) + t \div d, r |-> t % d]

\* round-half-to-even of n / d, as the float formatting '.1f' rounds a tie
RoundHalfEven(q, r, d) ==
    IF 2 * r < d THEN q
    ELSE IF 2 * r > d THEN q + 1
    ELSE IF q % 2 = 0 THEN q ELSE q + 1

(* ------------------------------ constants ----------------------------- *)

Channels == <<"soil_raw", "light_raw", "temp_c", "hum">>

ChannelSet == {Channels[k] : k \in 1..Len(Channels)}

SmoothName(c) ==
    CASE c = "soil_raw" -> "soil_smooth"
      [] c = "light_raw" -> "light_smooth"
      [] c = "temp_c" -> "temp_smooth"
      [] c = "hum" -> "hum_smooth"

\* THRESHOLD = 10_000_000_000
THRESHOLD == Num(10000, 0)

\* rolling(window=5, min_periods=1)
Window == 5

MinPeriods == 1

\* pd.to_datetime('2025-01-01') as days since 1970-01-01
FixedEpochDays == 20089

MsPerDay == 86400 * 1000

(* ------------------------------- inputs ------------------------------- *)

TsValues ==
    { Num(0, 0), Num(0, 3600), Num(0, 5000), Num(0, 6000), Num(0, 7200),
      Num(10000, 0), Num(10000, 1), Num(1700000, 0) }

Moods == {"happy", "thirsty", "hot"}

Readings == {2}

\* a raw log entry; a key the entry does not carry is NaN
RawRecord(i, ts, soil, light, temp, hum, mood) ==
    [id |-> i, timestamp |-> ts, soil_raw |-> soil, light_raw |-> light,
     temp_c |-> temp, hum |-> hum, mood |-> mood]

\* default readings of entry i: a ramp on every channel
Ramp(i) == <<i>>

\* batches that vary the timestamps (present or missing)
TimeBatch(batch) ==
    \E n \in 0..MaxRecs : \E t \in [1..n -> TsValues \cup {NaN}] :
        batch = [i \in 1..n |->
                   RawRecord(i, t[i], Ramp(i), Ramp(i), Ramp(i), Ramp(i), <<"happy">>)]

\* batches that vary one channel (present or missing) over hourly uptime
\* timestamps, the newest entry inserted first
SmoothBatch(batch) ==
    \E n \in 0..MaxSmoothLen :
    \E v \in [1..n -> {<<r>> : r \in Readings} \cup {NaN}] :
    \E ch \in ChannelSet :
        batch = [i \in 1..n |->
                   LET val(c) == IF c = ch THEN v[i] ELSE Ramp(n + 1 - i)
                   IN  RawRecord(i, Num(0, 3600 * (n - i)), val("soil_raw"),
                                 val("light_raw"), val("temp_c"), val("hum"),
                                 <<"happy">>)]

\* batches that vary the moods (present or missing); the entries come in
\* pairs with the same timestamp, a quarter of an hour apart
MoodBatch(batch) ==
    \E n \in 0..MaxRecs :
    \E m \in [1..n -> {<<x>> : x \in Moods} \cup {NaN}] :
        batch = [i \in 1..n |->
                   RawRecord(i, Num(0, 900 * ((i + 1) \div 2)), Ramp(i), Ramp(i),
                             Ramp(i), Ramp(i), m[i])]

(* ------------------------------ helpers ------------------------------- *)

Range(s) == {s[i] : i \in 1..Len(s)}

RECURSIVE Sum(_, _, _)
\* sum of f[i] over i in lo..hi
Sum(f, lo, hi) == IF lo > hi THEN 0 ELSE f[lo] + Sum(f, lo + 1, hi)

Max(a, b) == IF a >= b THEN a ELSE b

\* the frame's row for a raw entry: derived columns not yet present
NewRow(r) ==
    [id |-> r.id, timestamp |-> r.timestamp, soil_raw |-> r.soil_raw,
     light_raw |-> r.light_raw, temp_c |-> r.temp_c, hum |-> r.hum,
     mood |-> r.mood, is_unix_timestamp |-> FALSE, datetime |-> NaN,
     seconds_from_start |-> NaN, time_label |-> "",
     soil_smooth |-> NaN, light_smooth |-> NaN, temp_smooth |-> NaN,
     hum_smooth |-> NaN]

\* DataFrame.from_dict(logs, orient='index'): a column exists iff some
\* entry carries the key
FrameColumns(batch) ==
    {c \in {"timestamp", "soil_raw", "light_raw", "temp_c", "hum", "mood"} :
        \E i \in 1..Len(batch) : ~IsNaN(batch[i][c])}

NoOutput ==
    [period |-> <<>>, describe |-> <<>>, moods |-> <<>>, corr |-> <<>>,
     files |-> <<>>]

Init ==
    /\ (TimeBatch(logs) \/ SmoothBatch(logs) \/ MoodBatch(logs))
    /\ df = <<>>
    /\ columns = {}
    /\ pc = "load"
    /\ caseTaken = "none"
    /\ err = "none"
    /\ out = NoOutput
    /\ mood_counts = <<>>

(* lines 19-24: json.load, DataFrame.from_dict *)
LoadFrame ==
    /\ pc = "load"
    /\ df' = [i \in 1..Len(logs) |-> NewRow(logs[i])]
    /\ columns' = FrameColumns(logs)
    /\ pc' = "sort"
    /\ UNCHANGED <<logs, caseTaken, err, out, mood_counts>>

\* the run dies with an uncaught exception
Raise(kind) ==
    /\ pc' = "error"
    /\ err' = kind

\* sort key order of two optional timestamps: NaN sorts last
TsBefore(a, b) ==
    IF IsNaN(b) THEN TRUE
    ELSE IF IsNaN(a) THEN FALSE
    ELSE NumLe(a, b)

RECURSIVE SortedOrders(_, _)
\* every ordering of the rows S of frame d that is ascending by timestamp;
\* the default sort kind (quicksort) is not stable, so rows with equal keys
\* may come out in any order
SortedOrders(d, S) ==
    IF S = {} THEN {<<>>}
    ELSE UNION { { <<d[i]>> \o rest : rest \in SortedOrders(d, S \ {i}) }
                 : i \in {j \in S : \A k \in S : TsBefore(d[j].timestamp, d[k].timestamp)} }

\* mutant of SortValues: the frame is left in insertion order
KeepOrder(d) == {d}

\* mutant of SortValues: the frame is sorted descending
SortDescending(d) ==
    {[i \in 1..Len(d) |-> o[Len(d) + 1 - i]] : o \in SortedOrders(d, 1..Len(d))}

\* df.sort_values('timestamp')
SortValues(d) == SortedOrders(d, 1..Len(d))

(* line 26 *)
Sort ==
    /\ pc = "sort"
    /\ IF "timestamp" \notin columns
       THEN /\ Raise("KeyError")
            /\ UNCHANGED <<logs, df, columns, caseTaken, out, mood_counts>>
       ELSE /\ df' \in SortValues(df)
            /\ pc' = "classify"
            /\ UNCHANGED <<logs, columns, caseTaken, err, out, mood_counts>>

\* mutant of IsUnixTimestamp: >= in place of >
IsUnixAtLeast(ts) == ~IsNaN(ts) /\ NumLe(THRESHOLD, ts)

\* df['timestamp'] > THRESHOLD ; a comparison with NaN is False
IsUnixTimestamp(ts) == ~IsNaN(ts) /\ NumGt(ts, THRESHOLD)

(* lines 29-30 *)
Classify ==
    /\ pc = "classify"
    /\ df' = [i \in 1..Len(df) |->
                [df[i] EXCEPT !.is_unix_timestamp = IsUnixTimestamp(df[i].timestamp)]]
    /\ columns' = columns \cup {"is_unix_timestamp"}
    /\ pc' = "reconcile"
    /\ UNCHANGED <<logs, caseTaken, err, out, mood_counts>>

(* --------------------------- Case A (lines 32-47) --------------------- *)

\* pd.to_datetime(timestamp, unit='ms'): epoch milliseconds to a datetime
ToDatetimeMs(ts) ==
    LET s == NumDivMod(ts, 1000)
    IN  <<s.q \div 86400, (s.q % 86400) * 1000 + s.r>>

\* lines 34-35: NaT everywhere, then the converted time on the unix rows
AssignAbsolute(d) ==
    [i \in 1..Len(d) |->
        IF d[i].is_unix_timestamp THEN ToDatetimeMs(d[i].timestamp) ELSE NaN]

RECURSIVE FillFromFirst(_, _)
\* mutant of FFillAt: every gap after a value takes the first value of the
\* column instead of the nearest one before it
FillFromFirst(col, i) ==
    IF i = 0 THEN NaN
    ELSE IF ~IsNaN(col[i]) THEN col[i]
    ELSE LET seen == {j \in 1..i : ~IsNaN(col[j])}
         IN  IF seen = {} THEN NaN
             ELSE col[CHOOSE j \in seen : \A k \in seen : j <= k]

RECURSIVE FFillAt(_, _)
\* the value ffill leaves at position i: the nearest value at or before i
FFillAt(col, i) ==
    IF i = 0 THEN NaN
    ELSE IF ~IsNaN(col[i]) THEN col[i]
    ELSE FFillAt(col, i - 1)

\* Series.ffill()
FFill(col) == [i \in 1..Len(col) |-> FFillAt(col, i)]

RECURSIVE BFillAt(_, _)
\* the value bfill leaves at position i: the nearest value at or after i
BFillAt(col, i) ==
    IF i > Len(col) THEN NaN
    ELSE IF ~IsNaN(col[i]) THEN col[i]
    ELSE BFillAt(col, i + 1)

\* Series.bfill()
BFill(col) == [i \in 1..Len(col) |-> BFillAt(col, i)]

\* mutant of FillDatetime: the forward fill is left out
FillBackwardOnly(col) == BFill(col)

\* line 44: df['datetime'].ffill().bfill()
FillDatetime(col) == BFill(FFill(col))

Pad2(n) == IF n < 10 THEN "0" \o ToString(n) ELSE ToString(n)

\* the proleptic Gregorian date of a day count since 1970-01-01
CivilFromDays(days) ==
    LET z == days + 719468
        era == z \div 146097
        doe == z - era * 146097
        yoe == (doe - doe \div 1460 + doe \div 36524 - doe \div 146096) \div 365
        doy == doe - (365 * yoe + yoe \div 4 - yoe \div 100)
        mp == (5 * doy + 2) \div 153
        m == IF mp < 10 THEN mp + 3 ELSE mp - 9
    IN  [y |-> yoe + era * 400 + (IF m <= 2 THEN 1 ELSE 0),
         m |-> m,
         d |-> doy - (153 * mp + 2) \div 5 + 1]

\* line 47: dt.strftime('%Y-%m-%d %H:%M')
Strftime(dt) ==
    IF IsNaN(dt) THEN "NaN"
    ELSE LET c == CivilFromDays(dt[1])
             minutes == dt[2] \div 60000
         IN  ToString(c.y) \o "-" \o Pad2(c.m) \o "-" \o Pad2(c.d) \o " "
             \o Pad2(minutes \div 60) \o ":" \o Pad2(minutes % 60)

AnyUnix(d) == \E i \in 1..Len(d) : d[i].is_unix_timestamp

\* the frame after the if-branch
CaseAFrame(d) ==
    LET filled == FillDatetime(AssignAbsolute(d))
    IN  [i \in 1..Len(d) |->
            [d[i] EXCEPT !.datetime = filled[i],
                         !.time_label = Strftime(filled[i])]]

ReconcileA ==
    /\ pc = "reconcile"
    /\ AnyUnix(df)
    /\ df' = CaseAFrame(df)
    /\ columns' = columns \cup {"datetime", "time_label"}
    /\ caseTaken' = "A"
    /\ pc' = "smooth"
    /\ UNCHANGED <<logs, err, out, mood_counts>>

(* --------------------------- Case B (lines 48-53) --------------------- *)

\* df['timestamp'].min(): the least timestamp, NaN skipped
MinTimestamp(d) ==
    LET present == {i \in 1..Len(d) : ~IsNaN(d[i].timestamp)}
    IN  IF present = {} THEN NaN
        ELSE d[CHOOSE i \in present :
                 \A j \in present : NumLe(d[i].timestamp, d[j].timestamp)].timestamp

\* line 50: timestamp - min; NaN propagates
SecondsFromStart(ts, lo) ==
    IF IsNaN(ts) \/ IsNaN(lo) THEN NaN ELSE NumSub(ts, lo)

\* line 52: pd.to_datetime('2025-01-01') + pd.to_timedelta(seconds, unit='s')
EpochPlusSeconds(sec) ==
    IF IsNaN(sec) THEN NaN
    ELSE LET s == NumDivMod(sec, 86400)
         IN  <<FixedEpochDays + s.q, s.r * 1000>>

\* mutant of HourTenths: the tenths are cut off, not rounded
HourTenthsTruncated(sec) == NumDivMod(sec, 360).q

\* tenths of an hour in sec seconds: (sec / 3600) rounded to one decimal.
\* A tie is rounded half to even, which is what the float formatting does
\* when sec / 3600 is a binary fraction (sec a multiple of 900).
HourTenths(sec) ==
    LET s == NumDivMod(sec, 360)
    IN  RoundHalfEven(s.q, s.r, 360)

\* line 53: f'{x:.1f}h' of hours_from_start = seconds_from_start / 3600
HoursLabel(sec) ==
    IF IsNaN(sec) THEN "nanh"
    ELSE LET t == HourTenths(sec)
         IN  ToString(t \div 10) \o "." \o ToString(t % 10) \o "h"

\* the largest elapsed time line 52 can anchor: Timestamp.max, 2262-04-11
\* 23:47:16 (2^63 - 1 ns after 1970), less 2025-01-01, in seconds
MaxElapsed == Num(7487, 682436)

\* line 52 overflows the nanosecond range: to_timedelta or the addition
\* raises (OutOfBoundsTimedelta, OverflowError)
Overflows(sec) == ~IsNaN(sec) /\ NumGt(sec, MaxElapsed)

\* the frame after lines 50-51 (hours_from_start is seconds_from_start over
\* 3600 and is held as the seconds)
ElapsedFrame(d) ==
    LET lo == MinTimestamp(d)
    IN  [i \in 1..Len(d) |->
            [d[i] EXCEPT !.seconds_from_start = SecondsFromStart(d[i].timestamp, lo)]]

\* the frame after lines 52-53
CaseBFrame(d) ==
    [i \in 1..Len(d) |->
        [d[i] EXCEPT !.datetime = EpochPlusSeconds(d[i].seconds_from_start),
                     !.time_label = HoursLabel(d[i].seconds_from_start)]]

ReconcileB ==
    /\ pc = "reconcile"
    /\ ~AnyUnix(df)
    /\ caseTaken' = "B"
    /\ LET e == ElapsedFrame(df)
       IN  IF \E i \in 1..Len(e) : Overflows(e[i].seconds_from_start)
           THEN /\ df' = e
                /\ columns' = columns \cup {"seconds_from_start", "hours_from_start"}
                /\ Raise("OutOfBounds")
           ELSE /\ df' = CaseBFrame(e)
                /\ columns' = columns \cup {"seconds_from_start", "hours_from_start",
                                            "datetime", "time_label"}
                /\ pc' = "smooth"
                /\ err' = err
    /\ UNCHANGED <<logs, out, mood_counts>>

(* ------------------------- smoothing (lines 55-59) -------------------- *)

\* mutant of RollingMeanAt: min_periods left at its default, the window size
RollingMeanFullWindow(col, i) ==
    LET first == Max(1, i - Window + 1)
        val == [j \in 1..Len(col) |-> IF IsNaN(col[j]) THEN 0 ELSE col[j][1]]
        obs == [j \in 1..Len(col) |-> IF IsNaN(col[j]) THEN 0 ELSE 1]
        n == Sum(obs, first, i)
    IN  IF n < Window THEN NaN ELSE <<Sum(val, first, i), n>>

\* rolling(window=5, min_periods=1).mean() at position i of a column: the
\* mean of the observations (NaN skipped) in the last Window positions, NaN
\* when there are fewer than MinPeriods of them
RollingMeanAt(col, i) ==
    LET first == Max(1, i - Window + 1)
        val == [j \in 1..Len(col) |-> IF IsNaN(col[j]) THEN 0 ELSE col[j][1]]
        obs == [j \in 1..Len(col) |-> IF IsNaN(col[j]) THEN 0 ELSE 1]
        n == Sum(obs, first, i)
    IN  IF n < MinPeriods THEN NaN ELSE <<Sum(val, first, i), n>>

RollingMean(col) == [i \in 1..Len(col) |-> RollingMeanAt(col, i)]

Column(d, c) == [i \in 1..Len(d) |-> d[i][c]]

\* one of lines 56-59: df[c + '_smooth'] = df[c].rolling(...).mean()
WithSmooth(d, c) ==
    LET sm == RollingMean(Column(d, c))
    IN  [i \in 1..Len(d) |->
            CASE c = "soil_raw" -> [d[i] EXCEPT !.soil_smooth = sm[i]]
              [] c = "light_raw" -> [d[i] EXCEPT !.light_smooth = sm[i]]
              [] c = "temp_c" -> [d[i] EXCEPT !.temp_smooth = sm[i]]
              [] c = "hum" -> [d[i] EXCEPT !.hum_smooth = sm[i]]]

RECURSIVE SmoothFirst(_, _)
\* the frame after the first k of lines 56-59
SmoothFirst(d, k) ==
    IF k = 0 THEN d ELSE WithSmooth(SmoothFirst(d, k - 1), Channels[k])

\* how many of lines 56-59 run before one names a column the frame lacks
SmoothReach(cols) ==
    IF \A k \in 1..Len(Channels) : Channels[k] \in cols THEN Len(Channels)
    ELSE (CHOOSE k \in 1..Len(Channels) :
            /\ Channels[k] \notin cols
            /\ \A j \in 1..(k - 1) : Channels[j] \in cols) - 1

Smooth ==
    /\ pc = "smooth"
    /\ LET k == SmoothReach(columns)
       IN  /\ df' = SmoothFirst(df, k)
           /\ columns' = columns \cup {SmoothName(Channels[j]) : j \in 1..k}
           /\ IF k = Len(Channels)
              THEN pc' = "period" /\ err' = err
              ELSE Raise("KeyError")
    /\ UNCHANGED <<logs, caseTaken, out, mood_counts>>

(* ------------------------ statistics (lines 61-79) -------------------- *)

DtLe(a, b) == a[1] < b[1] \/ (a[1] = b[1] /\ a[2] <= b[2])

\* df['datetime'].min() / .max(), NaT skipped
DatetimeMin(d) ==
    LET present == {i \in 1..Len(d) : ~IsNaN(d[i].datetime)}
    IN  IF present = {} THEN NaN
        ELSE d[CHOOSE i \in present :
                 \A j \in present : DtLe(d[i].datetime, d[j].datetime)].datetime

DatetimeMax(d) ==
    LET present == {i \in 1..Len(d) : ~IsNaN(d[i].datetime)}
    IN  IF present = {} THEN NaN
        ELSE d[CHOOSE i \in present :
                 \A j \in present : DtLe(d[j].datetime, d[i].datetime)].datetime

\* end - start as <<days, ms>>
DatetimeDiff(b, a) ==
    IF IsNaN(a) \/ IsNaN(b) THEN NaN
    ELSE IF b[2] >= a[2] THEN <<b[1] - a[1], b[2] - a[2]>>
    ELSE <<b[1] - a[1] - 1, b[2] + MsPerDay - a[2]>>

\* line 65-66: total_seconds() / 3600 printed with '.1f', in tenths of hours
DurationTenths(dur) ==
    IF IsNaN(dur) THEN NaN
    ELSE <<dur[1] * 240 + RoundHalfEven(dur[2] \div 360000, dur[2] % 360000, 360000)>>

\* lines 62-67
PeriodSummary(d) ==
    LET start == DatetimeMin(d)
        end == DatetimeMax(d)
        dur == DatetimeDiff(end, start)
    IN  [start |-> start, end |-> end, duration |-> dur,
         duration_hours |-> DurationTenths(dur), reading_count |-> Len(d)]

PrintPeriod ==
    /\ pc = "period"
    /\ out' = [out EXCEPT !.period = <<PeriodSummary(df)>>]
    /\ pc' = "describe"
    /\ UNCHANGED <<logs, df, columns, caseTaken, err, mood_counts>>

\* describe() of one column: count, mean, min and max over the observations
\* (std and the quartiles are real-valued and are not carried)
Describe(col) ==
    LET present == {i \in 1..Len(col) : ~IsNaN(col[i])}
        val == [j \in 1..Len(col) |-> IF IsNaN(col[j]) THEN 0 ELSE col[j][1]]
    IN  [count |-> Cardinality(present),
         mean |-> IF present = {} THEN NaN
                  ELSE <<Sum(val, 1, Len(col)), Cardinality(present)>>,
         min |-> IF present = {} THEN NaN
                 ELSE <<CHOOSE v \in {val[i] : i \in present} :
                          \A i \in present : v <= val[i]>>,
         max |-> IF present = {} THEN NaN
                 ELSE <<CHOOSE v \in {val[i] : i \in present} :
                          \A i \in present : v >= val[i]>>]

\* lines 69-70
PrintStats ==
    /\ pc = "describe"
    /\ out' = [out EXCEPT !.describe =
                 <<[c \in ChannelSet |-> Describe(Column(df, c))]>>]
    /\ pc' = "moods"
    /\ UNCHANGED <<logs, df, columns, caseTaken, err, mood_counts>>

\* the distinct moods of the column in order of first appearance, NaN dropped
RECURSIVE FirstSeen(_, _)
FirstSeen(col, i) ==
    IF i = 0 THEN <<>>
    ELSE LET before == FirstSeen(col, i - 1)
         IN  IF IsNaN(col[i]) \/ col[i][1] \in Range(before) THEN before
             ELSE Append(before, col[i][1])

CountOf(col, label) == Cardinality({i \in 1..Len(col) : col[i] = <<label>>})

RECURSIVE DescendingOrders(_, _)
\* every ordering of the entries S of tally t that is descending by count;
\* the sort is the default, unstable, kind: ties come out in any order
DescendingOrders(t, S) ==
    IF S = {} THEN {<<>>}
    ELSE UNION { { <<t[i]>> \o rest : rest \in DescendingOrders(t, S \ {i}) }
                 : i \in {j \in S : \A k \in S : t[j][2] >= t[k][2]} }

\* mutant of SortTally: value_counts(sort=False)
KeepTally(t) == {t}

\* sort_values(ascending=False) of the tally
SortTally(t) == DescendingOrders(t, 1..Len(t))

\* df['mood'].value_counts(): <<label, count>> entries
ValueCounts(col) ==
    LET keys == FirstSeen(col, Len(col))
        tally == [k \in 1..Len(keys) |-> <<keys[k], CountOf(col, keys[k])>>]
    IN  SortTally(tally)

\* lines 72-74
PrintMoods ==
    /\ pc = "moods"
    /\ IF "mood" \notin columns
       THEN /\ Raise("KeyError")
            /\ out' = out
       ELSE /\ \E vc \in ValueCounts(Column(df, "mood")) :
                 out' = [out EXCEPT !.moods = <<vc>>]
            /\ pc' = "corr"
            /\ err' = err
    /\ UNCHANGED <<logs, df, columns, caseTaken, mood_counts>>

\* one cell of DataFrame.corr(): Pearson's r over the rows where both
\* columns are observed. The coefficient is real-valued; the model keeps
\* whether the cell is a number or NaN (fewer than two such rows, or one of
\* the two columns constant over them)
CorrCell(a, b) ==
    LET both == {i \in 1..Len(a) : ~IsNaN(a[i]) /\ ~IsNaN(b[i])}
        constant(col) == \A i, j \in both : col[i] = col[j]
    IN  IF Cardinality(both) < 2 \/ constant(a) \/ constant(b)
        THEN "nan" ELSE "r"

\* lines 76-79
PrintCorr ==
    /\ pc = "corr"
    /\ out' = [out EXCEPT !.corr =
                 <<[p \in ChannelSet \X ChannelSet |->
                      CorrCell(Column(df, p[1]), Column(df, p[2]))]>>]
    /\ pc' = "plot"
    /\ UNCHANGED <<logs, df, columns, caseTaken, err, mood_counts>>

(* -------------------------- figures (lines 81-242) -------------------- *)

SavedFiles ==
    <<"time_series.png", "correlation_heatmap.png", "mood_distribution.png",
      "dashboard_overview.png">>

\* line 144 takes value_counts() again; the figures are then saved
Plot ==
    /\ pc = "plot"
    /\ mood_counts' \in ValueCounts(Column(df, "mood"))
    /\ out' = [out EXCEPT !.files = SavedFiles]
    /\ pc' = "done"
    /\ UNCHANGED <<logs, df, columns, caseTaken, err>>

Next ==
    \/ LoadFrame
    \/ Sort
    \/ Classify
    \/ ReconcileA
    \/ ReconcileB
    \/ Smooth
    \/ PrintPeriod
    \/ PrintStats
    \/ PrintMoods
    \/ PrintCorr
    \/ Plot

Spec == Init /\ [][Next]_vars
(* ====================================================================== *)
(* Properties                                                              *)
(* ====================================================================== *)

Rows == 1..Len(df)

Classified == "is_unix_timestamp" \in columns

HasTimestamp(i) == ~IsNaN(df[i].timestamp)

Smoothed == {SmoothName(c) : c \in ChannelSet} \subseteq columns

\* a + b on timestamps
NumPlus(a, b) ==
    LET lo == a[2] + b[2]
    IN  <<a[1] + b[1] + lo \div Base, lo % Base>>

\* a * k for a factor k of at most 2000
NumTimes(a, k) ==
    LET lo == a[2] * k
    IN  <<a[1] * k + lo \div Base, lo % Base>>

\* the epoch milliseconds a datetime stands for (dates before 2038)
EpochMsOf(dt) ==
    LET sec == dt[1] * 86400 + dt[2] \div 1000
    IN  <<sec \div 1000, (sec % 1000) * 1000 + (dt[2] % 1000)>>

\* the whole seconds from the fixed epoch 2025-01-01 to a datetime
SecondsSinceFixedEpoch(dt) ==
    NumPlus(NumTimes(NumTimes(<<0, dt[1] - FixedEpochDays>>, 864), 100),
            <<0, dt[2] \div 1000>>)

DtPresentLe(a, b) == ~IsNaN(a) /\ ~IsNaN(b) /\ DtLe(a, b)

TimestampsOf(seq) == [i \in 1..Len(seq) |-> seq[i].timestamp]

(* ------------------------------- C1 ----------------------------------- *)

C2_MonotonicCaseA ==
    caseTaken = "A" =>
      \A i, j \in Rows : i < j => DtPresentLe(df[i].datetime, df[j].datetime)

\* a Case A frame whose absolute rows were inserted newest first, followed by
\* a row the forward fill has filled
C2_Witness ==
    /\ caseTaken = "A"
    /\ \E i, j, k \in Rows :
         /\ i < j /\ j < k
         /\ df[i].is_unix_timestamp /\ df[j].is_unix_timestamp
         /\ df[i].id > df[j].id
         /\ df[i].datetime # df[j].datetime
         /\ ~df[k].is_unix_timestamp

(* ------------------------------- C3 ----------------------------------- *)

\* C3: a row is classified absolute exactly when its timestamp is strictly
\* above 10_000_000_000; 10_000_000_000 itself is uptime and 10_000_000_001
\* is absolute; Case A is taken exactly when some row is absolute
C3_Classification ==
    /\ Classified =>
         \A i \in Rows :
           /\ df[i].is_unix_timestamp <=>
                /\ ~IsNaN(df[i].timestamp)
                /\ \/ df[i].timestamp[1] > 10000
                   \/ df[i].timestamp[1] = 10000 /\ df[i].timestamp[2] > 0
           /\ df[i].timestamp = <<10000, 0>> => ~df[i].is_unix_timestamp
           /\ df[i].timestamp = <<10000, 1>> => df[i].is_unix_timestamp
    /\ caseTaken = "A" => \E i \in Rows : df[i].is_unix_timestamp
    /\ caseTaken = "B" => \A i \in Rows : ~df[i].is_unix_timestamp
    /\ caseTaken = "none" => pc \in {"load", "sort", "classify", "reconcile", "error"}

\* Case A was taken for a frame holding both boundary values
C3_Witness ==
    /\ caseTaken = "A"
    /\ \E i, j \in Rows :
         /\ df[i].timestamp = <<10000, 0>> /\ ~df[i].is_unix_timestamp
         /\ df[j].timestamp = <<10000, 1>> /\ df[j].is_unix_timestamp

(* ------------------------------- C4 ----------------------------------- *)

\* the label "W.Th" of t tenths of an hour
TenthsLabel(t) == ToString(t \div 10) \o "." \o ToString(t % 10) \o "h"

\* t tenths of an hour is a nearest tenth to sec seconds: |360 t - sec| <= 180
NearestTenth(t, sec) ==
    LET p == NumTimes(<<t \div Base, t % Base>>, 360)
    IN  IF NumLe(p, sec) THEN NumLe(NumSub(sec, p), <<0, 180>>)
        ELSE NumLe(NumSub(p, sec), <<0, 180>>)

\* the rows of a Case B frame have their elapsed time, datetime and label
CaseBRowsLabelled ==
    /\ \E m \in Rows :
         /\ HasTimestamp(m)
         /\ \A i \in Rows :
              HasTimestamp(i) =>
                /\ NumLe(df[m].timestamp, df[i].timestamp)
                /\ ~IsNaN(df[i].seconds_from_start)
                /\ NumPlus(df[m].timestamp, df[i].seconds_from_start)
                     = df[i].timestamp
    /\ \A i \in Rows :
         IF HasTimestamp(i)
         THEN LET sec == df[i].seconds_from_start
                  floor == NumDivMod(sec, 360).q
              IN  /\ ~IsNaN(df[i].datetime)
                  /\ df[i].datetime[2] \in 0..(MsPerDay - 1)
                  /\ df[i].datetime[2] % 1000 = 0
                  /\ SecondsSinceFixedEpoch(df[i].datetime) = sec
                  /\ \E t \in {floor, floor + 1} :
                       /\ NearestTenth(t, sec)
                       /\ df[i].time_label = TenthsLabel(t)
                  /\ sec = <<0, 0>> => df[i].time_label = "0.0h"
                  /\ sec = <<0, 3600>> => df[i].time_label = "1.0h"
                  /\ sec = <<0, 7200>> => df[i].time_label = "2.0h"
         ELSE /\ IsNaN(df[i].seconds_from_start)
              /\ IsNaN(df[i].datetime)
              /\ df[i].time_label = "nanh"

\* some elapsed time of the frame is more than 7_487_682_436 seconds
ElapsedBeyondRange ==
    \E i, m \in Rows :
      /\ HasTimestamp(i) /\ HasTimestamp(m)
      /\ NumLe(df[m].timestamp, df[i].timestamp)
      /\ NumGt(NumSub(df[i].timestamp, df[m].timestamp), <<7487, 682436>>)

SmoothAt(c, i) == df[i][SmoothName(c)]

\* the fraction a is the number n / d
IsFraction(a, n, d) == ~IsNaN(a) /\ a[1] * d = n * a[2]

\* C5: each smoothed column is as long as the input, and its value at row i
\* is the arithmetic mean of the channel over rows max(first, i-4)..i, so
\* that no row of a channel lacks a value; on [1,2,3,4,5,6] the result is
\* [1, 1.5, 2, 2.5, 3, 4]. (Where a row carries no reading for the channel,
\* the mean is taken over the readings the window does hold.)
C5_RollingMean ==
    Smoothed =>
      /\ Len(df) = Len(logs)
      /\ \A c \in ChannelSet : \A i \in Rows :
           LET first == Max(1, i - 4)
               held == {j \in first..i : ~IsNaN(df[j][c])}
               reading == [j \in Rows |-> IF j \in held THEN df[j][c][1] ELSE 0]
               complete == \A j \in Rows : ~IsNaN(df[j][c])
           IN  /\ held # {} =>
                    /\ ~IsNaN(SmoothAt(c, i))
                    /\ SmoothAt(c, i)[1] = Sum(reading, first, i)
                    /\ SmoothAt(c, i)[2] = Cardinality(held)
               /\ held = {} => IsNaN(SmoothAt(c, i))
               /\ complete =>
                    /\ ~IsNaN(SmoothAt(c, i))
                    /\ SmoothAt(c, i)[2] = i - first + 1
      /\ \A c \in ChannelSet :
           Column(df, c) = <<<<1>>, <<2>>, <<3>>, <<4>>, <<5>>, <<6>>>> =>
             /\ IsFraction(SmoothAt(c, 1), 1, 1)
             /\ IsFraction(SmoothAt(c, 2), 3, 2)
             /\ IsFraction(SmoothAt(c, 3), 2, 1)
             /\ IsFraction(SmoothAt(c, 4), 5, 2)
             /\ IsFraction(SmoothAt(c, 5), 3, 1)
             /\ IsFraction(SmoothAt(c, 6), 4, 1)

\* the ramp [1..6] has been smoothed: the sixth window has dropped the first
\* reading
C5_Witness ==
    /\ Smoothed
    /\ Column(df, "soil_raw") = <<<<1>>, <<2>>, <<3>>, <<4>>, <<5>>, <<6>>>>
    /\ df[6].soil_smooth = <<20, 5>>
    /\ df[2].soil_smooth = <<3, 2>>

(* ------------------------------- C6 ----------------------------------- *)

MissingNumericField ==
    \E i \in 1..Len(logs) : \E c \in ChannelSet \cup {"timestamp"} :
        IsNaN(logs[i][c])

\* C6: a batch in which some record lacks a numeric field aborts with
\* MalformedRecordError, produces no output and never completes normally
C6_MalformedRecordAborts ==
    MissingNumericField =>
      /\ pc # "done"
      /\ out = NoOutput
      /\ pc = "error" => err = "MalformedRecordError"

\* C6, its last part: a batch in which some record lacks a numeric field
\* never completes normally
C6_NeverCompletes ==
    MissingNumericField => pc # "done"

(* ------------------------------- C7 ----------------------------------- *)

\* C7: an empty mapping fails with EmptyDatasetError and no other error,
\* before any classification, reconciliation, smoothing or statistics step
\* and without output
C7_EmptyDatasetError ==
    Len(logs) = 0 =>
      /\ pc \in {"load", "sort", "error"}
      /\ pc = "error" => err = "EmptyDatasetError"
      /\ ~Classified /\ caseTaken = "none" /\ ~Smoothed
      /\ out = NoOutput

(* ------------------------------- C8 ----------------------------------- *)

MoodsOfFrame == {df[i].mood[1] : i \in {j \in Rows : ~IsNaN(df[j].mood)}}

RowsWithMood(label) == {i \in Rows : df[i].mood = <<label>>}

FirstRowWithMood(label) ==
    CHOOSE i \in RowsWithMood(label) : \A j \in RowsWithMood(label) : i <= j

\* the tallies the run has produced so far: the printed one (line 74) and
\* the one kept for the figures (line 144)
TalliesProduced ==
    Range(out.moods) \cup (IF pc = "done" THEN {mood_counts} ELSE {})

\* tally t lists every mood of the frame once with its number of rows, in
\* descending order of count
ExactDescendingTally(t) ==
    /\ {t[k][1] : k \in 1..Len(t)} = MoodsOfFrame
    /\ Len(t) = Cardinality(MoodsOfFrame)
    /\ \A k \in 1..Len(t) : t[k][2] = Cardinality(RowsWithMood(t[k][1]))
    /\ Sum([k \in 1..Len(t) |-> t[k][2]], 1, Len(t))
         = Cardinality({i \in Rows : ~IsNaN(df[i].mood)})
    /\ (\A i \in Rows : ~IsNaN(df[i].mood)) =>
         Sum([k \in 1..Len(t) |-> t[k][2]], 1, Len(t)) = Len(df)
    /\ \A k, l \in 1..Len(t) : k < l => t[k][2] >= t[l][2]

\* moods of tally t with equal counts stand in the order of their first row
TiesInFirstSeenOrder(t) ==
    \A k, l \in 1..Len(t) :
      (k < l /\ t[k][2] = t[l][2]) =>
        FirstRowWithMood(t[k][1]) < FirstRowWithMood(t[l][1])

\* C8 as amended: the mood distribution lists every mood of the batch once
\* with exactly the number of records carrying it (the counts sum to the
\* number of records that carry a mood, the record count when all do), in
\* descending order of count; moods with equal counts come in no fixed order
C8_MoodDistribution ==
    \A t \in TalliesProduced : ExactDescendingTally(t)

\* C8 as stated: the same, and moods with equal counts appear in the order
\* in which they are first seen in the timestamp-sorted sequence
C8_TiesFirstSeen ==
    \A t \in TalliesProduced : ExactDescendingTally(t) /\ TiesInFirstSeenOrder(t)

\* a finished run whose tally puts a mood seen later, with more rows, first
C8_Witness ==
    /\ pc = "done"
    /\ Len(mood_counts) = 2
    /\ mood_counts[1][2] > mood_counts[2][2]
    /\ FirstRowWithMood(mood_counts[1][1]) > FirstRowWithMood(mood_counts[2][1])
    /\ out.moods = <<mood_counts>>

(* ------------------------------- C9 ----------------------------------- *)

\* C9: the frame is sorted by raw timestamp, classified and reconciled
\* before it is smoothed; when the rolling means are taken its datetime is
\* non-decreasing along the rows (rows without a datetime last), in Case A
\* and in Case B, whatever the insertion order; so a smoothing window holds
\* only the row itself and rows whose datetime is not later
C9_SmoothingOrder ==
    /\ pc \in {"load", "sort", "classify", "reconcile"} =>
         columns \cap {SmoothName(c) : c \in ChannelSet} = {}
    /\ pc = "smooth" =>
         /\ Classified
         /\ caseTaken \in {"A", "B"}
         /\ "datetime" \in columns
         /\ \A i, j \in Rows : i < j =>
              /\ TsBefore(df[i].timestamp, df[j].timestamp)
              /\ IsNaN(df[j].datetime) \/ DtPresentLe(df[i].datetime, df[j].datetime)
    /\ Smoothed =>
         \A i \in Rows : \A j \in Max(1, i - 4)..i :
            IsNaN(df[i].datetime) \/ DtPresentLe(df[j].datetime, df[i].datetime)

\* a smoothed frame whose first rows were inserted in the opposite order
C9_Witness ==
    /\ Smoothed
    /\ Len(df) >= 2
    /\ df[1].id > df[2].id
    /\ DtPresentLe(df[1].datetime, df[2].datetime)
    /\ df[1].datetime # df[2].datetime
    /\ df[2].soil_smooth[2] = 2

(* ------------------------------- C10 ---------------------------------- *)

\* the absolute row with the least timestamp
FirstAbsoluteRow ==
    CHOOSE f \in {i \in Rows : df[i].is_unix_timestamp} :
      \A i \in Rows : df[i].is_unix_timestamp =>
        NumLe(df[f].timestamp, df[i].timestamp)

====
